---- MODULE Spec2Model ----
(***************************************************************************)
(* Attack Event State & Escalation Engine of HomeSecurityPlatform.         *)
(*                                                                         *)
(* The engine is the first draft of src/unnamed/part_000 (lines 1-512):    *)
(* the module-level counters, drawAttackBeam and the helpers it calls.     *)
(* Time is the value of Date.now() in milliseconds.  setTimeout tasks      *)
(* fire exactly when they fall due, one at a time, between two handler     *)
(* calls.  An effect (a Leaflet layer with its own animation) is recorded  *)
(* by the call that creates it.                                            *)
(***************************************************************************)
EXTENDS Integers, Sequences, FiniteSets, TLC

VARIABLES
    now,                    \* Date.now()
    lastDrawTime,           \* part_000:23
    attackCount,            \* part_000:19
    defensePressure,        \* part_000:20
    escalationLevel,        \* part_000:24
    originIntensity,        \* part_000:17  key -> counter
    heatZones,              \* part_000:21  key -> counter
    recentTargets,          \* part_000:22
    shieldDomeInitialized,  \* window.shieldDomeInitialized
    shieldDomeLayer,        \* <<>> while unset, else <<layer>>
    soundEnabled,           \* part_000:33
    lastSoundTime,          \* window.lastSoundTime, 0 while unset
    lastGlobalPulse,        \* window.lastGlobalPulse, 0 while unset
    counterText,            \* the number shown by #attackCounter, -1 while absent
    timers,                 \* pending setTimeout tasks of the choreography
    lastOp,                 \* the step just taken
    spawned,                \* effects created by the step just taken, in call order
    played,                 \* audio clips started by the step just taken
    hist,                   \* history of the run (observation only)
    callLog,                \* the latest calls (observation, kept by Spec only)
    accDests,               \* destinations of the accepted events, in order (observation)
    layers                  \* the layers on the map, with their animation state (SpecEffects, SpecMap)

vars == <<now, lastDrawTime, attackCount, defensePressure, escalationLevel,
          originIntensity, heatZones, recentTargets, shieldDomeInitialized,
          shieldDomeLayer, soundEnabled, lastSoundTime, lastGlobalPulse,
          counterText, timers, lastOp, spawned, played, hist, callLog, accDests,
          layers>>

\* The state the engine itself owns (everything but the clock and the observation).
engine == <<lastDrawTime, attackCount, defensePressure, escalationLevel,
            originIntensity, heatZones, recentTargets, shieldDomeInitialized,
            shieldDomeLayer, soundEnabled, lastSoundTime, lastGlobalPulse,
            counterText, timers>>

----------------------------------------------------------------------------
\* Bounds of the model.

StartTime == 1000       \* Date.now() when the page is loaded
Quantum == 20           \* the clock is observed every Quantum ms and at every due task
MaxElapsed == 160       \* Spec: the run is followed for this many ms
MaxAttacks == 2         \* Spec: at most this many accepted events

MaxPacedElapsed == 780  \* SpecPaced: the run is followed for this many ms
MaxPacedAttacks == 13   \* SpecPaced: at most this many accepted events
MaxPacedCritical == 1   \* SpecPaced: at most this many accepted critical events
MaxAudioElapsed == 780  \* SpecAudio: the run is followed for this many ms
MaxAudioAttacks == 13   \* SpecAudio: at most this many accepted events
MaxRingElapsed == 420   \* SpecRing: the run is followed for this many ms
MaxRingAttacks == 7     \* SpecRing: at most this many accepted events
MaxInterceptElapsed == 440  \* SpecIntercept: the run is followed for this many ms
MaxInterceptAttacks == 3    \* SpecIntercept: at most this many accepted events
MaxSeverityElapsed == 240   \* SpecSeverity: the run is followed for this many ms
MaxSeverityAttacks == 2     \* SpecSeverity: at most this many accepted events
FramePeriod == 40           \* SpecEffects: the display is refreshed every FramePeriod ms
EffectsPace == 520          \* SpecEffects: calls arrive at multiples of EffectsPace ms
MaxEffectsElapsed == 2600   \* SpecEffects: the run is followed for this many ms
MapPace == 600              \* SpecMap: calls arrive at multiples of MapPace ms
MaxMapElapsed == 2200       \* SpecMap: the run is followed for this many ms
MaxMapAttacks == 2          \* SpecMap: at most this many events
MaxBootClock == 240         \* SpecBoot: the run is followed until Date.now() is this
MaxBootAttacks == 2         \* SpecBoot: at most this many accepted events
LimitersPace == 400         \* SpecLimiters: calls arrive at multiples of LimitersPace ms
MaxLimitersElapsed == 2000  \* SpecLimiters: the run is followed for this many ms
MaxLimitersAttacks == 3     \* SpecLimiters: at most this many accepted events
MaxEffectsAttacks == 2      \* SpecEffects: at most this many accepted events

\* Program constants.

ThrottleMs == 60
RingSize == 5
ClusterThreshold == 4
OriginCap == 8
HeatCap == 6
StaggerMs == 120
SoundGapMs == 800
GlobalPulseGapMs == 1500

Origins == {<<5, 5>>, <<10, 10>>}
Dests == {<<20, 20>>, <<30, 30>>}
Severities == {"low", "medium", "high", "critical", "bogus"}
NoPoint == <<0, 0>>

\* The severities the engine names, and what a caller may pass as the fourth
\* argument: a severity, any other string, or nothing ("undefined").
ClockStarts == {0, 40, 60}
Known == {"low", "medium", "high", "critical"}
SeverityArgs ==
    {"medium", "critical", "bogus", "constructor", "isPrototypeOf", "__proto__",
     "undefined"}

----------------------------------------------------------------------------
\* Helpers.

Min(S) == CHOOSE x \in S : \A y \in S : x <= y

\* Array.prototype.toString of a coordinate pair: "lat,lng".
toString(location) == <<location[1], ",", location[2]>>

\* (m[key] || 0)
Get(m, key) == IF key \in DOMAIN m THEN m[key] ELSE 0

\* Variant: the assignment drops every other key.
PutAlone(m, key, v) == [k \in {key} |-> v]

\* m[key] = v
Put(m, key, v) == [k \in DOMAIN m \cup {key} |-> IF k = key THEN v ELSE m[k]]

\* One created layer: what it is, where it is drawn, its size parameter, its colour.
Eff(kind, a, b, p, color) ==
    [kind |-> kind, from |-> a, to |-> b, p |-> p, color |-> color]

Kinds(effects) == {effects[i].kind : i \in DOMAIN effects}

\* How many of the created layers are of a kind.
Count(effects, kind) == Cardinality({i \in DOMAIN effects : effects[i].kind = kind})

\* The step taken last.  raised is the error the step threw, "none" if none.
Op(op, accepted, from, to, sev, trig, idx) ==
    [op |-> op, accepted |-> accepted, from |-> from, to |-> to,
     severity |-> sev, at |-> now, trig |-> trig, idx |-> idx, raised |-> "none"]

----------------------------------------------------------------------------
\* Pure parts of the helpers.

\* The default of the fourth parameter: severity = "medium".
defaultSeverity(arg) == IF arg = "undefined" THEN "medium" ELSE arg

\* The property names an object literal inherits from Object.prototype.  The
\* value found under "__proto__" is Object.prototype itself, an object; under
\* each of the others it is a function.
ObjectPrototype ==
    {"constructor", "hasOwnProperty", "isPrototypeOf", "propertyIsEnumerable",
     "toLocaleString", "toString", "valueOf", "__defineGetter__",
     "__defineSetter__", "__lookupGetter__", "__lookupSetter__", "__proto__"}

\* severityColors[severity] || "#00ffff": the lookup finds the four own
\* properties and the inherited ones, which are truthy.
severityColors(severity) ==
    CASE severity = "critical" -> "#ff0033"
      [] severity = "high" -> "#ff6600"
      [] severity = "medium" -> "#00ffff"
      [] severity = "low" -> "#00ccff"
      [] severity = "__proto__" -> "object"
      [] severity \in ObjectPrototype -> "function"
      [] OTHER -> "#00ffff"

\* Variant: the comparisons include the thresholds.
levelEarly(pressure) ==
    IF pressure >= 12 THEN 3 ELSE IF pressure >= 6 THEN 2 ELSE 1

\* The level updateEscalationLevel assigns for a pressure.
level(pressure) ==
    IF pressure > 12 THEN 3 ELSE IF pressure > 6 THEN 2 ELSE 1

\* The clips playThreatAudio starts.
playThreatAudio(lvl, enabled) ==
    IF ~enabled THEN <<>>
    ELSE (IF lvl = 2 THEN <<"alertLow">> ELSE <<>>)
         \o (IF lvl = 3 THEN <<"alertHigh">> ELSE <<>>)

\* Variant: the pressure starts over once it has reached 12.
pressureWrapped(pressure) == (pressure + 1) % 13

\* defensePressure++
bumpPressure(pressure) == pressure + 1

\* createOriginPulse: the counter after the call, and the aura it draws.
originCounter(m, location) == Get(m, toString(location)) + 1

createOriginPulse(m, location) ==
    LET c == originCounter(m, location)
        intensity == IF c < OriginCap THEN c ELSE OriginCap
    IN  <<Eff("originPulse", location, location, intensity, "red")>>

createCountryAura(location) ==
    <<Eff("countryAura", location, location, 90000, "red")>>

\* updateHeatZone: the counter after the call, and the circle it draws.
heatCounter(m, location) == Get(m, toString(location)) + 1

updateHeatZone(m, location) ==
    LET c == heatCounter(m, location)
        intensity == IF c < HeatCap THEN c ELSE HeatCap
    IN  <<Eff("heatZone", location, location, intensity, "red")>>

\* Variant: the cluster is signalled only above the threshold.
detectThreatClusterLate(m, location) ==
    IF Get(m, toString(location)) > ClusterThreshold
    THEN <<Eff("clusterWarning", location, location, 120000, "#ff3300")>>
    ELSE <<>>

\* detectThreatCluster, called after updateHeatZone with the updated map.
detectThreatCluster(m, location) ==
    IF Get(m, toString(location)) >= ClusterThreshold
    THEN <<Eff("clusterWarning", location, location, 120000, "#ff3300")>>
    ELSE <<>>

\* Variant: pop() in place of shift(): the newest entry is dropped.
pushTargetPop(targets, toCoords) ==
    LET pushed == Append(targets, toCoords)
    IN  IF Len(pushed) > RingSize THEN SubSeq(pushed, 1, Len(pushed) - 1) ELSE pushed

\* recentTargets.push(toCoords); if (recentTargets.length > 5) recentTargets.shift()
pushTarget(targets, toCoords) ==
    LET pushed == Append(targets, toCoords)
    IN  IF Len(pushed) > RingSize THEN Tail(pushed) ELSE pushed

\* Variant: a delay longer than two throttle intervals.
defenseResponseDelayLong(severity) == 130

\* The delay defenseResponseDelay hands to setTimeout.
defenseResponseDelay(severity) ==
    CASE severity = "critical" -> 80
      [] severity = "high" -> 160
      [] severity = "medium" -> 260
      [] OTHER -> 340

\* The setTimeout task of the choreography.  trig and snap are observation:
\* the time of the event that scheduled it and recentTargets at that moment.
Task(kind, due, trig, idx, from, to, severity, snap) ==
    [kind |-> kind, due |-> due, trig |-> trig, idx |-> idx, from |-> from,
     to |-> to, severity |-> severity, snap |-> snap]

\* Variant: the choreography is scheduled whatever the severity.
scheduleInterceptAny(severity, targets) ==
    {Task("multiIntercept", now + defenseResponseDelay(severity), now, 0,
          NoPoint, NoPoint, severity, targets)}

\* The critical branch schedules the choreography; no other severity does.
scheduleIntercept(severity, targets) ==
    IF severity = "critical"
    THEN {Task("multiIntercept", now + defenseResponseDelay(severity), now, 0,
               NoPoint, NoPoint, severity, targets)}
    ELSE {}

\* Variants: a window half as long; a window that also shuts out the 60th ms.
throttledShort(t, last) == t - last < 30

throttledLong(t, last) == t - last <= ThrottleMs

\* The throttle test of drawAttackBeam.
throttled(t, last) == t - last < ThrottleMs

\* Variant: the dome is taken to exist already.
domeNeverMissing(initialized) == FALSE

\* Variant: the guard is not consulted.
domeAlwaysMissing(initialized) == TRUE

\* window.shieldDomeInitialized guards the creation of the dome.
domeMissing(initialized) == ~initialized

\* !window.lastGlobalPulse || Date.now() - window.lastGlobalPulse > 1500
globalPulseDue(t, last) == last = 0 \/ t - last > GlobalPulseGapMs

\* Variant: the sound is started whatever the last time it was.
soundDueAlways(t, last) == TRUE

\* !window.lastSoundTime || now - window.lastSoundTime > 800
soundDue(t, last) == last = 0 \/ t - last > SoundGapMs

\* The effects of the critical branch, in call order.
criticalEffects(from, to, lvl, pulseDue) ==
    (IF lvl >= 2 THEN <<Eff("orbitalPulse", to, to, 30000, "#00ffff")>> ELSE <<>>)
    \o (IF lvl = 3 THEN <<Eff("globalPulse", <<20, 0>>, <<20, 0>>, 9000000, "#00ffff")>>
        ELSE <<>>)
    \o <<Eff("impactFlash", from, from, 20000, "#ff0033")>>
    \o (IF pulseDue
        THEN <<Eff("globalPulse", <<20, 0>>, <<20, 0>>, 9000000, "#00ffff")>>
        ELSE <<>>)
    \o <<Eff("shieldImpact", to, to, 15000, "#00ccff"),
         Eff("orbitalPulse", to, to, 30000, "#00ffff"),
         Eff("satelliteLock", to, to, 1, "#66ffff"),
         Eff("satelliteLock", to, to, 2, "#66ffff"),
         Eff("satelliteLock", to, to, 3, "#66ffff")>>

----------------------------------------------------------------------------
\* The state after the scripts have loaded.

InitAt(start, initialized) ==
    /\ now = start
    /\ lastDrawTime = 0
    /\ attackCount = 0
    /\ defensePressure = 0
    /\ escalationLevel = 1
    /\ originIntensity = <<>>
    /\ heatZones = <<>>
    /\ recentTargets = <<>>
    /\ shieldDomeInitialized = initialized
    /\ shieldDomeLayer = <<>>
    /\ soundEnabled = FALSE
    /\ lastSoundTime = 0
    /\ lastGlobalPulse = 0
    /\ counterText = -1
    /\ timers = {}
    /\ lastOp = Op("load", FALSE, NoPoint, NoPoint, "medium", 0, 0)
    /\ spawned = <<>>
    /\ played = <<>>
    /\ hist = [acceptedFrom |-> <<>>, accepted |-> 0, criticals |-> 0, lastAcceptAt |-> 0,
               domes |-> 0, firstDest |-> NoPoint, lastPulseAt |-> 0,
               lastSoundAt |-> 0]
    /\ callLog = [at |-> 0, rejects |-> FALSE, passed |-> FALSE]
    /\ accDests = <<>>
    /\ layers = {}

\* The scripts have loaded when Date.now() is StartTime.
InitWith(initialized) == InitAt(StartTime, initialized)

\* The scripts have loaded and window.shieldDomeInitialized is not set.
Init == InitWith(FALSE)

\* The same, when Date.now() at load is one of ClockStarts: the clock of the
\* host stands at or shortly after its epoch.
InitClock == \E start \in ClockStarts : InitAt(start, FALSE)

\* The same, on a page where window.shieldDomeInitialized may be set already:
\* the flag is a property of window, which the engine shares with the page.
\* With the flag set the engine never creates its dome.
InitPage == \E initialized \in BOOLEAN : InitWith(initialized)

----------------------------------------------------------------------------
\* drawAttackBeam(map, fromCoords, toCoords, severity)

\* Variant: the counters are bumped before the throttle test.
RejectedCounting(fromCoords, toCoords, severity) ==
    /\ lastOp' = Op("drawAttackBeam", FALSE, NoPoint, NoPoint, severity, 0, 0)
    /\ spawned' = <<>>
    /\ played' = <<>>
    /\ attackCount' = attackCount + 1
    /\ defensePressure' = defensePressure + 1
    /\ UNCHANGED <<now, lastDrawTime, escalationLevel, originIntensity, heatZones,
                   recentTargets, shieldDomeInitialized, shieldDomeLayer,
                   soundEnabled, lastSoundTime, lastGlobalPulse, counterText,
                   timers, hist>>

\* The throttle test fails the call: drawAttackBeam returns at once.
Rejected(fromCoords, toCoords, severity) ==
    /\ lastOp' = Op("drawAttackBeam", FALSE, NoPoint, NoPoint, severity, 0, 0)
    /\ spawned' = <<>>
    /\ played' = <<>>
    /\ UNCHANGED <<now, engine, hist>>

\* The body of an accepted call, but for the record of the step.
AcceptedBody(fromCoords, toCoords, severity) ==
    LET makeDome == domeMissing(shieldDomeInitialized)
        pressure == bumpPressure(defensePressure)
        lvl == level(pressure)
        key == toString(fromCoords)
        heat == Put(heatZones, key, heatCounter(heatZones, fromCoords))
        color == severityColors(severity)
        targets == pushTarget(recentTargets, toCoords)
        critical == severity = "critical"
        ring == critical /\ soundEnabled /\ soundDue(now, lastSoundTime)
        pulseDue == globalPulseDue(now, lastGlobalPulse)
    IN  /\ lastDrawTime' = now
        /\ shieldDomeInitialized' = TRUE
        /\ shieldDomeLayer' =
               IF makeDome THEN <<[center |-> toCoords, radius |-> 180000]>>
               ELSE shieldDomeLayer
        /\ attackCount' = attackCount + 1
        /\ defensePressure' = pressure
        /\ counterText' = attackCount + 1
        /\ escalationLevel' = lvl
        /\ originIntensity' =
               Put(originIntensity, key, originCounter(originIntensity, fromCoords))
        /\ heatZones' = heat
        /\ recentTargets' = targets
        /\ lastSoundTime' = IF ring THEN now ELSE lastSoundTime
        /\ lastGlobalPulse' = IF critical /\ pulseDue THEN now ELSE lastGlobalPulse
        /\ timers' = timers \cup scheduleIntercept(severity, targets)
        /\ spawned' =
               (IF makeDome
                THEN <<Eff("shieldDome", toCoords, toCoords, 180000, "#00ccff")>>
                ELSE <<>>)
               \o createOriginPulse(originIntensity, fromCoords)
               \o createCountryAura(fromCoords)
               \o updateHeatZone(heatZones, fromCoords)
               \o detectThreatCluster(heat, fromCoords)
               \o <<Eff("beam", fromCoords, toCoords,
                        IF critical THEN 4 ELSE 2, color)>>
               \o (IF critical
                   THEN criticalEffects(fromCoords, toCoords, lvl, pulseDue)
                   ELSE <<>>)
               \o <<Eff("packet", fromCoords, toCoords, 3, color),
                    Eff("trajectory", fromCoords, toCoords, 1, "#00ffff"),
                    Eff("shieldRipple", toCoords, toCoords,
                        IF critical THEN 3 ELSE 2, "#00e6ff")>>
        /\ played' =
               playThreatAudio(lvl, soundEnabled)
               \o playThreatAudio(lvl, soundEnabled)
               \o (IF ring THEN <<"criticalSound">> ELSE <<>>)
        /\ hist' = [hist EXCEPT
               !.acceptedFrom = Put(@, key, Get(@, key) + 1),
               !.accepted = @ + 1,
               !.criticals = IF critical THEN @ + 1 ELSE @,
               !.lastAcceptAt = now,
               !.domes = IF makeDome THEN @ + 1 ELSE @,
               !.firstDest = IF hist.accepted = 0 THEN toCoords ELSE @,
               !.lastPulseAt = IF critical /\ (lvl = 3 \/ pulseDue) THEN now ELSE @,
               !.lastSoundAt = IF ring THEN now ELSE @]
        /\ UNCHANGED <<now, soundEnabled>>

\* An accepted call: everything after the throttle test.
Accepted(fromCoords, toCoords, severity) ==
    /\ AcceptedBody(fromCoords, toCoords, severity)
    /\ lastOp' = Op("drawAttackBeam", TRUE, fromCoords, toCoords, severity, 0, 0)

drawAttackBeam(fromCoords, toCoords, severity) ==
    IF throttled(now, lastDrawTime)
    THEN Rejected(fromCoords, toCoords, severity)
    ELSE Accepted(fromCoords, toCoords, severity)

----------------------------------------------------------------------------
\* The life of a layer.  A layer is removed by a setTimeout task set when it is
\* created (due), or by its own animation, which takes its first step in the
\* call that creates the layer and one more step per animation frame; the
\* beam and the dome are removed by nobody.

\* The delay of setTimeout(() => map.removeLayer(layer), delay), 0 if none.
removeAfter(kind) ==
    CASE kind = "originPulse" -> 1200
      [] kind = "countryAura" -> 2000
      [] kind = "heatZone" -> 2000
      [] kind = "clusterWarning" -> 2500
      [] kind = "trajectory" -> 900
      [] kind = "satelliteLock" -> 800
      [] kind = "globalPulse" -> 1200
      [] kind = "trailDot" -> 180
      [] OTHER -> 0

\* The opacity a fading layer starts from, in hundredths, 0 if it does not fade.
startOpacity(kind) ==
    CASE kind = "impactFlash" -> 70
      [] kind = "shieldImpact" -> 90
      [] kind = "shieldRipple" -> 60
      [] kind = "interceptBeam" -> 90
      [] kind = "orbitalPulse" -> 60
      [] OTHER -> 0

\* opacity > 0 after `steps` runs of opacity -= 0.05, in IEEE-754 doubles:
\* from 0.7 and 0.9 the result is at most 0 when the exact value is; from 0.6
\* twelve subtractions leave 5.55e-17, which is above 0.
opacityAboveZero(start, steps) ==
    IF start = 60 THEN steps < 13 ELSE start - 5 * steps > 0

\* Variant: the packet goes on while progress <= 1.
progressBelowOneLate(steps) == steps <= 50

\* progress < 1 after `steps` runs of progress += 0.02, in IEEE-754 doubles:
\* forty-nine runs give 0.9800000000000005, fifty give 1.0000000000000004.
progressBelowOne(steps) == steps < 50

animated(kind) == kind = "packet" \/ startOpacity(kind) # 0

\* The animation asks for another frame after its `steps`-th step.
continues(kind, steps) ==
    IF kind = "packet" THEN progressBelowOne(steps)
    ELSE opacityAboveZero(startOpacity(kind), steps)

\* The rank of the layer created last at this instant, 0 if there is none.
\* It is still on the map: a removal timer has a delay and an animation ends
\* in a later frame.
lastSeq ==
    LET here == {l \in layers : l.at = now}
    IN  IF here = {} THEN 0
        ELSE (CHOOSE l \in here : \A m \in here : m.seq <= l.seq).seq

\* The layer an effect puts on the map.  src and n tell layers apart: the kind
\* of step that created it and its rank in that step.  at and seq order
\* the layers by creation, which is the order in which their removal timers
\* were set: pos grows with the order of creation within the step, seq with
\* the order of creation within the instant.
Layer(eff, src, n, pos) ==
    [eff |-> eff, src |-> src, at |-> now, n |-> n, seq |-> lastSeq + pos,
     steps |-> IF animated(eff.kind) THEN 1 ELSE 0,
     ticks |-> 0,
     due |-> IF removeAfter(eff.kind) # 0 THEN now + removeAfter(eff.kind) ELSE 0]

Born(effects, src) == {Layer(effects[i], src, i, i) : i \in DOMAIN effects}

Animating == {l \in layers : animated(l.eff.kind)}

layerDues == {l.due : l \in {x \in layers : x.due # 0}}

\* Some enumeration of a finite set.
SeqOf(S) ==
    CHOOSE q \in [1..Cardinality(S) -> S] : \A x \in S : \E i \in DOMAIN q : q[i] = x

\* One animation frame: every callback handed to requestAnimationFrame runs
\* once.  A layer whose animation has ended is removed; a packet that has
\* ended creates an impact flash at its destination (animatePacket).
frame ==
    LET ended == {l \in Animating : ~continues(l.eff.kind, l.steps + 1)}
        flashes == {Layer(Eff("impactFlash", l.eff.to, l.eff.to, 20000, l.eff.color),
                          "packet", l.n, 1)
                    : l \in {x \in ended : x.eff.kind = "packet"}}
    IN  /\ Animating # {}
        /\ layers' = (layers \ Animating)
                      \cup {[l EXCEPT !.steps = @ + 1, !.ticks = @ + 1]
                            : l \in Animating \ ended}
                      \cup flashes
        /\ spawned' = SeqOf({l.eff : l \in flashes})
        /\ played' = <<>>
        /\ lastOp' = Op("frame", FALSE, NoPoint, NoPoint, "medium", 0, 0)
        /\ UNCHANGED <<now, engine, hist, callLog, accDests>>

\* setTimeout(() => map.removeLayer(layer), delay) falls due.
removeLayer(l) ==
    /\ l.due = now
    /\ layers' = layers \ {l}
    /\ spawned' = <<>>
    /\ played' = <<>>
    /\ lastOp' = Op("removeLayer", FALSE, NoPoint, NoPoint, "medium", 0, 0)
    /\ UNCHANGED <<now, engine, hist, callLog, accDests>>

----------------------------------------------------------------------------
\* The delayed tasks of the choreography.

\* Variant: the stagger counts the targets from 1.
interceptBeamsLate(task, dome, targets) ==
    IF dome = <<>> THEN {}
    ELSE {Task("createInterceptBeam", now + i * StaggerMs, task.trig, i - 1,
               dome[1].center, targets[i], task.severity, task.snap)
          : i \in 1..Len(targets)}

\* Variant: the targets are those of the moment the event was accepted.
interceptBeamsSnap(task, dome, targets) ==
    IF dome = <<>> THEN {}
    ELSE {Task("createInterceptBeam", now + (i - 1) * StaggerMs, task.trig, i - 1,
               dome[1].center, task.snap[i], task.severity, task.snap)
          : i \in 1..Len(task.snap)}

\* The first draft never declares shieldDomeLayer: the name exists once line
\* 373 has assigned it, as a property of the global object.  Until then
\* reading it throws a ReferenceError.
readShieldDomeLayer(dome) == IF dome = <<>> THEN "ReferenceError" ELSE "none"

\* multiIntercept(map, recentTargets, severity), run by the response-delay task:
\* the stagger tasks it sets.  Without a dome it sets none: the test of
\* shieldDomeLayer in its first statement throws.
interceptBeams(task, dome, targets) ==
    IF dome = <<>> THEN {}
    ELSE {Task("createInterceptBeam", now + (i - 1) * StaggerMs, task.trig, i - 1,
               dome[1].center, targets[i], task.severity, task.snap)
          : i \in 1..Len(targets)}

multiIntercept(task) ==
    /\ task.kind = "multiIntercept"
    /\ task.due = now
    /\ timers' = (timers \ {task}) \cup interceptBeams(task, shieldDomeLayer, recentTargets)
    /\ lastOp' = [Op("multiIntercept", shieldDomeLayer # <<>>, NoPoint, NoPoint,
                       task.severity, task.trig, Len(recentTargets))
                      EXCEPT !.raised = readShieldDomeLayer(shieldDomeLayer)]
    /\ spawned' = <<>>
    /\ played' = <<>>
    /\ UNCHANGED <<now, lastDrawTime, attackCount, defensePressure, escalationLevel,
                   originIntensity, heatZones, recentTargets, shieldDomeInitialized,
                   shieldDomeLayer, soundEnabled, lastSoundTime, lastGlobalPulse,
                   counterText, hist, callLog, accDests, layers>>

\* createInterceptBeam(map, domeCenter, target, severity), run by a stagger task.
createInterceptBeam(task) ==
    /\ task.kind = "createInterceptBeam"
    /\ task.due = now
    /\ timers' = timers \ {task}
    /\ lastOp' = Op("createInterceptBeam", TRUE, task.from, task.to, task.severity,
                    task.trig, task.idx)
    /\ spawned' = <<Eff("interceptBeam", task.from, task.to,
                        IF task.severity = "critical" THEN 3 ELSE 2, "#00ffff")>>
    /\ played' = <<>>
    /\ UNCHANGED <<now, lastDrawTime, attackCount, defensePressure, escalationLevel,
                   originIntensity, heatZones, recentTargets, shieldDomeInitialized,
                   shieldDomeLayer, soundEnabled, lastSoundTime, lastGlobalPulse,
                   counterText, hist, callLog, accDests>>

\* The first click or keydown on the document.
enableSound ==
    /\ ~soundEnabled
    /\ soundEnabled' = TRUE
    /\ lastOp' = Op("enableSound", FALSE, NoPoint, NoPoint, "medium", 0, 0)
    /\ spawned' = <<>>
    /\ played' = <<>>
    /\ UNCHANGED <<now, lastDrawTime, attackCount, defensePressure, escalationLevel,
                   originIntensity, heatZones, recentTargets, shieldDomeInitialized,
                   shieldDomeLayer, lastSoundTime, lastGlobalPulse, counterText,
                   timers, hist, callLog, accDests, layers>>

\* The clock moves to the next observed instant: the next multiple of pace
\* after StartTime, or the next due task if that comes first.
nextInstant(pace) ==
    LET grid == StartTime + (((now - StartTime) \div pace) + 1) * pace
        dues == {t.due : t \in timers} \cup layerDues
    IN  IF dues = {} \/ Min(dues) >= grid THEN grid ELSE Min(dues)

advance(pace, limit) ==
    /\ \A t \in timers : t.due > now
    /\ \A d \in layerDues : d > now
    /\ nextInstant(pace) <= StartTime + limit
    /\ now' = nextInstant(pace)
    /\ lastOp' = Op("advance", FALSE, NoPoint, NoPoint, "medium", 0, 0)
    /\ spawned' = <<>>
    /\ played' = <<>>
    /\ UNCHANGED <<engine, hist>>

----------------------------------------------------------------------------
\* Spec: every origin, destination and severity, calls at any observed
\* instant, a few accepted events.  callLog.at is the time of the latest call
\* while it is less than 60 ms old (0 otherwise), callLog.rejects tells that a
\* call was rejected since the last accepted one, callLog.passed that the
\* call just accepted came after such a rejected call.

Call ==
    \E fromCoords \in Origins, toCoords \in Dests, severity \in Severities :
        /\ attackCount < MaxAttacks \/ throttled(now, lastDrawTime)
        /\ drawAttackBeam(fromCoords, toCoords, severity)
        /\ callLog' = IF attackCount' # attackCount
                      THEN [at |-> now, rejects |-> FALSE, passed |-> callLog.rejects]
                      ELSE [at |-> now, rejects |-> TRUE, passed |-> FALSE]
        /\ UNCHANGED <<accDests, layers>>

FireIntercept == \E task \in timers : multiIntercept(task)

FireBeam ==
    /\ \E task \in timers : createInterceptBeam(task)
    /\ UNCHANGED layers

Gesture == enableSound

Elapse ==
    /\ advance(Quantum, MaxElapsed)
    /\ callLog' = [at |-> IF now' - callLog.at < ThrottleMs THEN callLog.at ELSE 0,
                    rejects |-> callLog.rejects, passed |-> FALSE]
    /\ UNCHANGED <<accDests, layers>>

Next == Call \/ FireIntercept \/ FireBeam \/ Gesture \/ Elapse

Spec == Init /\ [][Next]_vars


----------------------------------------------------------------------------
\* SpecPaced: long runs.  Calls arrive at multiples of the throttle interval
\* (a second call at the same instant is rejected), from one origin to one
\* destination; few of them are critical.

PacedCall ==
    \E severity \in {"medium", "critical"} :
        /\ attackCount < MaxPacedAttacks \/ throttled(now, lastDrawTime)
        /\ severity = "critical" => hist.criticals < MaxPacedCritical
        /\ drawAttackBeam(<<5, 5>>, <<20, 20>>, severity)
        /\ UNCHANGED <<callLog, accDests, layers>>

PacedIntercept == \E task \in timers : multiIntercept(task)

PacedBeam ==
    /\ \E task \in timers : createInterceptBeam(task)
    /\ UNCHANGED layers

PacedElapse ==
    /\ advance(ThrottleMs, MaxPacedElapsed)
    /\ UNCHANGED <<callLog, accDests, layers>>

NextPaced == PacedCall \/ PacedIntercept \/ PacedBeam \/ PacedElapse

SpecPaced == Init /\ [][NextPaced]_vars

----------------------------------------------------------------------------
\* SpecAudio: the tiered cue.  Calls that are not critical arrive at multiples
\* of the throttle interval, before or after the first gesture on the page.

AudioCall ==
    \E severity \in {"medium", "high"} :
        /\ attackCount < MaxAudioAttacks \/ throttled(now, lastDrawTime)
        /\ drawAttackBeam(<<5, 5>>, <<20, 20>>, severity)
        /\ UNCHANGED <<callLog, accDests, layers>>

AudioGesture == enableSound

AudioElapse ==
    /\ advance(ThrottleMs, MaxAudioElapsed)
    /\ UNCHANGED <<callLog, accDests, layers>>

NextAudio == AudioCall \/ AudioGesture \/ AudioElapse

SpecAudio == Init /\ [][NextAudio]_vars

----------------------------------------------------------------------------
\* SpecBoot: the first events on a host whose clock stands near its epoch.
\* Calls come at any observed instant, from either origin to either
\* destination, medium or critical.

BootCall ==
    \E fromCoords \in Origins, toCoords \in Dests, severity \in {"medium", "critical"} :
        /\ attackCount < MaxBootAttacks \/ throttled(now, lastDrawTime)
        /\ drawAttackBeam(fromCoords, toCoords, severity)
        /\ UNCHANGED <<callLog, accDests, layers>>

BootFire == \E task \in timers : multiIntercept(task)

BootBeam ==
    /\ \E task \in timers : createInterceptBeam(task)
    /\ UNCHANGED layers

BootElapse ==
    /\ nextInstant(Quantum) <= MaxBootClock
    /\ advance(Quantum, MaxBootClock)
    /\ UNCHANGED <<callLog, accDests, layers>>

NextBoot == BootCall \/ BootFire \/ BootBeam \/ BootElapse

SpecBoot == InitClock /\ [][NextBoot]_vars

----------------------------------------------------------------------------
\* SpecLimiters: the three timestamps.  Calls arrive at multiples of
\* LimitersPace ms, from one origin to one destination, medium or critical,
\* before or after the first gesture on the page.

LimitersCall ==
    \E severity \in {"medium", "critical"} :
        /\ (now - StartTime) % LimitersPace = 0
        /\ attackCount < MaxLimitersAttacks \/ throttled(now, lastDrawTime)
        /\ drawAttackBeam(<<5, 5>>, <<20, 20>>, severity)
        /\ UNCHANGED <<callLog, accDests, layers>>

LimitersGesture == enableSound

LimitersFire == \E task \in timers : multiIntercept(task)

LimitersBeam ==
    /\ \E task \in timers : createInterceptBeam(task)
    /\ UNCHANGED layers

LimitersElapse ==
    /\ advance(LimitersPace, MaxLimitersElapsed)
    /\ UNCHANGED <<callLog, accDests, layers>>

NextLimiters ==
    LimitersCall \/ LimitersGesture \/ LimitersFire \/ LimitersBeam \/ LimitersElapse

SpecLimiters == Init /\ [][NextLimiters]_vars

----------------------------------------------------------------------------
\* SpecRing: the per-origin counters and the ring buffer.  Calls arrive at
\* multiples of the throttle interval, from either origin to either
\* destination, none critical; the accepted destinations are logged.

RingCall ==
    \E fromCoords \in Origins, toCoords \in Dests, severity \in {"high"} :
        /\ attackCount < MaxRingAttacks \/ throttled(now, lastDrawTime)
        /\ drawAttackBeam(fromCoords, toCoords, severity)
        /\ accDests' = IF attackCount' # attackCount
                       THEN Append(accDests, toCoords) ELSE accDests
        /\ UNCHANGED <<callLog, layers>>

RingElapse ==
    /\ advance(ThrottleMs, MaxRingElapsed)
    /\ UNCHANGED <<callLog, accDests, layers>>

NextRing == RingCall \/ RingElapse

SpecRing == Init /\ [][NextRing]_vars

----------------------------------------------------------------------------
\* SpecIntercept: the choreography.  Calls arrive at multiples of the throttle
\* interval and at the instants of the delayed tasks, from one origin to
\* either destination, critical or not.

InterceptCall ==
    \E toCoords \in Dests, severity \in {"high", "critical"} :
        /\ attackCount < MaxInterceptAttacks \/ throttled(now, lastDrawTime)
        /\ drawAttackBeam(<<5, 5>>, toCoords, severity)
        /\ UNCHANGED <<callLog, accDests, layers>>

InterceptFire == \E task \in timers : multiIntercept(task)

InterceptBeam ==
    /\ \E task \in timers : createInterceptBeam(task)
    /\ UNCHANGED layers

InterceptElapse ==
    /\ advance(ThrottleMs, MaxInterceptElapsed)
    /\ UNCHANGED <<callLog, accDests, layers>>

NextIntercept == InterceptCall \/ InterceptFire \/ InterceptBeam \/ InterceptElapse

SpecIntercept == Init /\ [][NextIntercept]_vars

\* SpecPage: the same calls and tasks on a page that may have set
\* window.shieldDomeInitialized before the first event.
SpecPage == InitPage /\ [][NextIntercept]_vars

----------------------------------------------------------------------------
\* SpecSeverity: what the caller passes as severity.  Calls arrive at multiples
\* of the throttle interval and at the instants of the delayed tasks, from one
\* origin to either destination, with any of SeverityArgs.

SeverityCall ==
    \E toCoords \in Dests, arg \in SeverityArgs :
        /\ attackCount < MaxSeverityAttacks \/ throttled(now, lastDrawTime)
        /\ drawAttackBeam(<<5, 5>>, toCoords, defaultSeverity(arg))
        /\ UNCHANGED <<callLog, accDests, layers>>

SeverityFire == \E task \in timers : multiIntercept(task)

SeverityBeam ==
    /\ \E task \in timers : createInterceptBeam(task)
    /\ UNCHANGED layers

SeverityElapse ==
    /\ advance(ThrottleMs, MaxSeverityElapsed)
    /\ UNCHANGED <<callLog, accDests, layers>>

NextSeverity == SeverityCall \/ SeverityFire \/ SeverityBeam \/ SeverityElapse

SpecSeverity == Init /\ [][NextSeverity]_vars


----------------------------------------------------------------------------
\* The engine of src/static/attackMap.js: drawAttackBeam without the throttle,
\* with the dome that pulses and is intensified by every event.  It keeps
\* attackCount, originIntensity, the dome, the sound limiter and its delayed
\* tasks in the variables of the same names.  Styles are in hundredths.

\* A setTimeout task of this engine; event is the number of the event that set it.
MapTask(kind, due, event, idx, from, severity) ==
    [kind |-> kind, due |-> due, event |-> event, idx |-> idx, from |-> from,
     severity |-> severity, trig |-> now]

\* createShieldDome: the layer, its stored base values, and the first step of
\* its pulse (radius 180000 + 1200), taken in the call.
createShieldDome(location) ==
    [center |-> location, radius |-> 181200, growing |-> TRUE,
     opacity |-> 45, fillOpacity |-> 8, weight |-> 2,
     baseOpacity |-> 45, baseFill |-> 8, baseWeight |-> 2]

glowBoost(severity) == IF severity = "critical" THEN 35 ELSE 12

weightBoost(severity) == IF severity = "critical" THEN 3 ELSE 1

revertDelay(severity) == IF severity = "critical" THEN 1400 ELSE 700

\* The setStyle of intensifyShieldDome.
intensified(dome, severity) ==
    [dome EXCEPT !.opacity = dome.baseOpacity + glowBoost(severity),
                 !.fillOpacity = dome.baseFill + glowBoost(severity),
                 !.weight = dome.baseWeight + weightBoost(severity)]

\* Variant: the revert leaves the stroke weight as it is.
revertedNoWeight(dome) ==
    [dome EXCEPT !.opacity = dome.baseOpacity, !.fillOpacity = dome.baseFill]

\* The setStyle of the revert task.
reverted(dome) ==
    [dome EXCEPT !.opacity = dome.baseOpacity,
                 !.fillOpacity = dome.baseFill,
                 !.weight = dome.baseWeight]

\* The 14 segments of the beam, each more opaque than the one before.
beamSegments(fromCoords, toCoords, color) ==
    [i \in 1..14 |-> Eff("segment", fromCoords, toCoords, i, color)]

\* The 8 particles of createBeamTrail, each drawing its first dot in the call.
beamTrail(fromCoords, toCoords, color) ==
    [i \in 1..8 |-> Eff("trailDot", fromCoords, toCoords, i, color)]

\* drawAttackBeam(map, fromCoords, toCoords, severity) of attackMap.js
drawAdvancedBeam(fromCoords, toCoords, severity) ==
    LET dome == IF shieldDomeInitialized \/ shieldDomeLayer # <<>>
                THEN shieldDomeLayer
                ELSE <<createShieldDome(toCoords)>>
        made == ~shieldDomeInitialized /\ shieldDomeLayer = <<>>
        color == severityColors(severity)
        critical == severity = "critical"
        key == toString(fromCoords)
        ring == critical /\ soundEnabled /\ now - lastSoundTime > SoundGapMs
    IN  /\ shieldDomeInitialized' = TRUE
        /\ shieldDomeLayer' =
               IF dome = <<>> THEN dome ELSE <<intensified(dome[1], severity)>>
        /\ attackCount' = attackCount + 1
        /\ counterText' = attackCount + 1
        /\ originIntensity' =
               Put(originIntensity, key, originCounter(originIntensity, fromCoords))
        /\ lastSoundTime' = IF ring THEN now ELSE lastSoundTime
        /\ timers' = timers
               \cup (IF dome = <<>> THEN {}
                     ELSE {MapTask("revert", now + revertDelay(severity),
                                   attackCount + 1, 0, fromCoords, severity)})
               \cup (IF critical
                     THEN {MapTask("originPulse", now + i * 150, attackCount + 1, i,
                                   fromCoords, severity) : i \in 0..1}
                     ELSE {})
        /\ spawned' =
               (IF made
                THEN <<Eff("shieldDome", toCoords, toCoords, 180000, "#00ccff")>>
                ELSE <<>>)
               \o createOriginPulse(originIntensity, fromCoords)
               \o createCountryAura(fromCoords)
               \o <<Eff("beam", fromCoords, toCoords, IF critical THEN 4 ELSE 2, color)>>
               \o beamSegments(fromCoords, toCoords, color)
               \o (IF critical
                   THEN <<Eff("impactFlash", fromCoords, fromCoords, 20000, "#ff0033")>>
                   ELSE <<>>)
               \o <<Eff("packet", fromCoords, toCoords, 3, color)>>
               \o (IF critical
                   THEN <<Eff("shieldImpact", toCoords, toCoords, 15000, "#00ccff")>>
                   ELSE <<>>)
               \o beamTrail(fromCoords, toCoords, color)
        /\ played' = IF ring THEN <<"criticalSound">> ELSE <<>>
        /\ lastOp' = Op("drawAttackBeam", TRUE, fromCoords, toCoords, severity, 0,
                        attackCount + 1)
        /\ hist' = [hist EXCEPT
               !.acceptedFrom = Put(@, key, Get(@, key) + 1),
               !.accepted = @ + 1,
               !.criticals = IF critical THEN @ + 1 ELSE @,
               !.lastAcceptAt = now,
               !.domes = IF made THEN @ + 1 ELSE @,
               !.firstDest = IF hist.accepted = 0 THEN toCoords ELSE @,
               !.lastSoundAt = IF ring THEN now ELSE @]
        /\ UNCHANGED <<now, lastDrawTime, defensePressure, escalationLevel, heatZones,
                       recentTargets, soundEnabled, lastGlobalPulse>>

\* The task set by intensifyShieldDome: the style goes back to the base values.
revertShieldDome(task) ==
    /\ task.kind = "revert"
    /\ task.due = now
    /\ timers' = timers \ {task}
    /\ shieldDomeLayer' = <<reverted(shieldDomeLayer[1])>>
    /\ lastOp' = Op("revertShieldDome", TRUE, NoPoint, NoPoint, task.severity,
                    task.trig, task.event)
    /\ spawned' = <<>>
    /\ played' = <<>>
    /\ UNCHANGED <<now, lastDrawTime, attackCount, defensePressure, escalationLevel,
                   originIntensity, heatZones, recentTargets, shieldDomeInitialized,
                   soundEnabled, lastSoundTime, lastGlobalPulse, counterText, hist>>

\* The tasks set by the critical branch: createOriginPulse(map, fromCoords) again.
originGlowBurst(task) ==
    /\ task.kind = "originPulse"
    /\ task.due = now
    /\ timers' = timers \ {task}
    /\ originIntensity' = Put(originIntensity, toString(task.from),
                              originCounter(originIntensity, task.from))
    /\ lastOp' = Op("createOriginPulse", TRUE, task.from, task.from, task.severity,
                    task.trig, task.event)
    /\ spawned' = createOriginPulse(originIntensity, task.from)
    /\ played' = <<>>
    /\ UNCHANGED <<now, lastDrawTime, attackCount, defensePressure, escalationLevel,
                   heatZones, recentTargets, shieldDomeInitialized, shieldDomeLayer,
                   soundEnabled, lastSoundTime, lastGlobalPulse, counterText, hist>>

----------------------------------------------------------------------------
\* The idle pulse of the dome in attackMap.js.

\* Variant: the test radius > 200000 is missing.
pulseStepGrowing(dome) ==
    LET radius == dome.radius + (IF dome.growing THEN 1200 ELSE -1200)
    IN  [dome EXCEPT !.radius = radius,
                     !.growing = IF radius < 170000 THEN TRUE ELSE @]

\* One run of pulse(): radius += growing ? 1200 : -1200, then the two tests.
pulseStep(dome) ==
    LET radius == dome.radius + (IF dome.growing THEN 1200 ELSE -1200)
    IN  [dome EXCEPT !.radius = radius,
                     !.growing = IF radius < 170000 THEN TRUE
                                 ELSE IF radius > 200000 THEN FALSE ELSE @]

\* One run of animate() of pulseBeam on a glow line: opacity += grow ? 0.02 :
\* -0.02, then the two tests; in hundredths.  The doubles cross 0.4 and 0.15
\* at the same runs as the hundredths do.
pulseBeamStep(line) ==
    LET opacity == line.opacity + (IF line.grow THEN 2 ELSE -2)
    IN  [opacity |-> opacity,
         grow |-> IF opacity <= 15 THEN TRUE
                  ELSE IF opacity >= 40 THEN FALSE ELSE line.grow]

\* The glow line after `steps` runs of animate(), from opacity 0.2, growing.
RECURSIVE pulseBeam(_)
pulseBeam(steps) ==
    IF steps = 0 THEN [opacity |-> 20, grow |-> TRUE]
    ELSE pulseBeamStep(pulseBeam(steps - 1))

\* The layers a call of attackMap.js puts on the map.  The rank of a layer is
\* 100 * event + its rank in the call.  pulseBeam has run once on the glow
\* line of a critical event.
MapBorn(effects, event) ==
    {[Layer(effects[i], "call", 100 * event + i, i)
        EXCEPT !.steps = IF effects[i].kind = "beam" /\ effects[i].p = 4 THEN 1 ELSE @]
     : i \in DOMAIN effects}

\* The event whose call or task created the layer.
eventOf(l) == l.n \div 100

\* The glow lines: one per event, never removed.  Each has a trail of 8
\* particles with its end points and colour (createBeamTrail).
GlowLines == {l \in layers : l.eff.kind = "beam"}

\* The dots the 8 particles of a trail draw in one frame.  In a frame the
\* layers of event e rank 10 * e (the flash of its packet) to 10 * e + 8.
trailDots(line) ==
    [i \in 1..8 |->
        Layer(Eff("trailDot", line.eff.from, line.eff.to, i, line.eff.color),
              "frame", 100 * eventOf(line) + 50 + i, 10 * eventOf(line) + i)]

\* The impact flash a packet creates in the frame in which it ends.
packetFlash(event) ==
    LET ended == {l \in layers : /\ l.eff.kind = "packet" /\ eventOf(l) = event
                                 /\ ~continues("packet", l.steps + 1)}
    IN  IF ended = {} THEN <<>>
        ELSE LET l == CHOOSE x \in ended : TRUE
             IN  <<Layer(Eff("impactFlash", l.eff.to, l.eff.to, 20000, l.eff.color),
                         "packet", l.n, 10 * event)>>

\* The layers created in one frame, in the order of the callbacks: for each
\* event from `event` on, the flash of its packet if it ends, then its dots.
RECURSIVE frameLayers(_)
frameLayers(event) ==
    IF event > attackCount THEN <<>>
    ELSE LET lines == {l \in GlowLines : eventOf(l) = event}
         IN  packetFlash(event)
             \o (IF lines = {} THEN <<>> ELSE trailDots(CHOOSE l \in lines : TRUE))
             \o frameLayers(event + 1)

\* One animation frame of attackMap.js: every callback handed to
\* requestAnimationFrame runs once.  pulse() of the dome; animate() of each
\* pulseBeam; the fades of createImpactFlash and createShieldImpact and move()
\* of animatePacket, whose layers are removed when they end; animate() of each
\* particle of each createBeamTrail, which draws a dot.
mapFrame ==
    LET ended == {l \in Animating : ~continues(l.eff.kind, l.steps + 1)}
        pulsing == {l \in GlowLines : l.steps > 0}
    IN  \E created \in {frameLayers(1)} :
            /\ shieldDomeLayer # <<>>
            /\ shieldDomeLayer' = <<pulseStep(shieldDomeLayer[1])>>
            /\ layers' = (layers \ (Animating \cup pulsing))
                          \cup {[l EXCEPT !.steps = @ + 1, !.ticks = @ + 1]
                                : l \in (Animating \ ended) \cup pulsing}
                          \cup {created[i] : i \in DOMAIN created}
            /\ spawned' = [i \in DOMAIN created |-> created[i].eff]
            /\ played' = <<>>
            /\ lastOp' = Op("frame", TRUE, NoPoint, NoPoint, "medium", 0, 0)
            /\ UNCHANGED <<now, lastDrawTime, attackCount, defensePressure, escalationLevel,
                           originIntensity, heatZones, recentTargets, shieldDomeInitialized,
                           soundEnabled, lastSoundTime, lastGlobalPulse, counterText,
                           timers, hist, callLog, accDests>>

----------------------------------------------------------------------------
\* SpecEffects: the layers on the map.  The display is refreshed every
\* FramePeriod ms and the animation frame runs first at each refresh; calls
\* come at multiples of EffectsPace ms, from one origin to one destination,
\* medium or critical; the setTimeout tasks fire when due, those that remove
\* layers in the order they were set.

AtRefresh == (now - StartTime) % FramePeriod = 0

\* The clock has just reached a refresh and the frame has not run yet.
FramePending == lastOp.op = "advance" /\ AtRefresh /\ Animating # {}

\* l is the first of the layers whose removal is due: timers due at the same
\* time run in the order they were set.
firstDue(l) ==
    /\ l.due = now
    /\ \A m \in layers :
           m.due = now => (l.at < m.at \/ (l.at = m.at /\ l.seq <= m.seq))

EffectsCall ==
    \E severity \in {"medium", "critical"} :
        /\ ~FramePending
        /\ (now - StartTime) % EffectsPace = 0
        /\ attackCount < MaxEffectsAttacks \/ throttled(now, lastDrawTime)
        /\ drawAttackBeam(<<5, 5>>, <<20, 20>>, severity)
        /\ layers' = layers \cup Born(spawned', "call")
        /\ UNCHANGED <<callLog, accDests>>

EffectsFire ==
    /\ ~FramePending
    /\ \E task \in timers : multiIntercept(task)

EffectsBeam ==
    /\ ~FramePending
    /\ \E task \in timers :
           /\ createInterceptBeam(task)
           /\ layers' = layers \cup {Layer(spawned'[1], "task", task.idx, 1)}

EffectsFrame == FramePending /\ frame

EffectsRemove ==
    /\ ~FramePending
    /\ \E l \in layers : firstDue(l) /\ removeLayer(l)

EffectsElapse ==
    /\ ~FramePending
    /\ advance(FramePeriod, MaxEffectsElapsed)
    /\ UNCHANGED <<callLog, accDests, layers>>

NextEffects ==
    EffectsCall \/ EffectsFire \/ EffectsBeam \/ EffectsFrame \/ EffectsRemove
    \/ EffectsElapse

SpecEffects == Init /\ [][NextEffects]_vars

----------------------------------------------------------------------------
\* SpecMap: the engine of attackMap.js.  The display is refreshed every
\* FramePeriod ms and the animation frame runs first at each refresh once the
\* dome exists; calls come at multiples of MapPace ms, from either origin to
\* one destination, medium or critical; the first gesture comes, if at all,
\* before the clock has moved; the setTimeout callbacks run when due, in the
\* order they were set.

\* Every delayed step of attackMap.js is a setTimeout callback, and callbacks
\* due at the same time run in the order they were set.  Two timers set at one
\* instant with one due time are two removals, or two tasks of different
\* calls: the timers one call sets have different delays.

\* task is the first of the callbacks that are due.
firstTask(task) ==
    /\ task.due = now
    /\ \A u \in timers :
           u.due = now =>
               (task.trig < u.trig \/ (task.trig = u.trig /\ task.event <= u.event))
    /\ \A l \in layers : l.due = now => task.trig < l.at

\* The removal of l is the first of the callbacks that are due.
firstRemoval(l) ==
    /\ firstDue(l)
    /\ \A u \in timers : u.due = now => l.at < u.trig

\* The clock has just reached a refresh and the frame has not run yet.
PulsePending == lastOp.op = "advance" /\ AtRefresh /\ shieldDomeLayer # <<>>

MapCall ==
    \E fromCoords \in Origins, severity \in {"medium", "critical"} :
        /\ ~PulsePending
        /\ (now - StartTime) % MapPace = 0
        /\ attackCount < MaxMapAttacks
        /\ drawAdvancedBeam(fromCoords, <<20, 20>>, severity)
        /\ layers' = layers \cup MapBorn(spawned', attackCount')
        /\ UNCHANGED <<callLog, accDests>>

MapFrame == PulsePending /\ mapFrame

MapRevert ==
    /\ ~PulsePending
    /\ \E task \in timers : firstTask(task) /\ revertShieldDome(task)
    /\ UNCHANGED <<callLog, accDests, layers>>

MapGlowBurst ==
    /\ ~PulsePending
    /\ \E task \in timers :
           /\ firstTask(task)
           /\ originGlowBurst(task)
           /\ layers' = layers
                  \cup {Layer(spawned'[1], "task",
                               100 * task.event + 60 + task.idx, 1)}
    /\ UNCHANGED <<callLog, accDests>>

MapRemove ==
    /\ ~PulsePending
    /\ \E l \in layers : firstRemoval(l) /\ removeLayer(l)

MapGesture == now = StartTime /\ enableSound

MapElapse ==
    /\ ~PulsePending
    /\ advance(FramePeriod, MaxMapElapsed)
    /\ UNCHANGED <<callLog, accDests, layers>>

NextMap ==
    MapCall \/ MapFrame \/ MapRevert \/ MapGlowBurst \/ MapRemove \/ MapGesture
    \/ MapElapse

SpecMap == Init /\ [][NextMap]_vars

----------------------------------------------------------------------------
\* Properties of the throttle gate (Spec).

\* The step is a call of drawAttackBeam.
IsCall == lastOp'.op = "drawAttackBeam"

\* An accepted call was made less than 60 ms ago.
AcceptedWithin == hist.lastAcceptAt # 0 /\ now - hist.lastAcceptAt < ThrottleMs

\* Some call, accepted or not, was made less than 60 ms ago.
CalledWithin == callLog.at # 0 /\ now - callLog.at < ThrottleMs

\* C1 as stated: whenever a call comes less than 60 ms after another call,
\* accepted or not, it changes nothing: attackCount stays and no effect is spawned.
C1_AnyPair ==
    [][(IsCall /\ CalledWithin) => (attackCount' = attackCount /\ spawned' = <<>>)]_vars

\* C1, amended: whenever a call comes less than 60 ms after an accepted call,
\* it changes nothing: attackCount stays and no effect is spawned.
C1_AfterAccepted ==
    [][(IsCall /\ AcceptedWithin) => (attackCount' = attackCount /\ spawned' = <<>>)]_vars

\* A call 20 or 40 ms after the only accepted call has just been turned away.
C1_Witness ==
    /\ lastOp.op = "drawAttackBeam" /\ ~lastOp.accepted
    /\ attackCount = 1
    /\ now - hist.lastAcceptAt \in 1..(ThrottleMs - 1)

\* C2: a call is turned away (the engine state stays as it is) if and only if it
\* comes less than 60 ms after the last accepted call, whatever its origin,
\* destination and severity; so an accepted call is at least 60 ms after the
\* accepted call before it, and a call 60 ms or more after the last accepted
\* call is accepted even when calls were rejected in between.
C2_GlobalGate ==
    [][IsCall =>
        /\ (UNCHANGED engine) <=> AcceptedWithin
        /\ lastOp'.accepted <=> ~AcceptedWithin
        /\ (lastOp'.accepted /\ hist.lastAcceptAt # 0)
               => now - hist.lastAcceptAt >= ThrottleMs]_vars

\* A second call has just been accepted exactly 60 ms after the first accepted
\* one, with a rejected call in between.
C2_Witness ==
    /\ lastOp.op = "drawAttackBeam" /\ lastOp.accepted
    /\ attackCount = 2
    /\ callLog.passed
    /\ lastDrawTime = StartTime + ThrottleMs

\* C3: a rejected call leaves every engine variable as it was (counters, maps,
\* ring buffer, dome, the three limiter timestamps, the pending delayed tasks),
\* spawns no effect and starts no audio clip.
C3_RejectedFrame ==
    [][(IsCall /\ ~lastOp'.accepted) =>
        /\ UNCHANGED <<lastDrawTime, attackCount, defensePressure, escalationLevel,
                       originIntensity, heatZones, recentTargets,
                       shieldDomeInitialized, shieldDomeLayer, soundEnabled,
                       lastSoundTime, lastGlobalPulse, counterText, timers>>
        /\ spawned' = <<>>
        /\ played' = <<>>]_vars

\* A critical call has just been rejected while sound is enabled, the dome
\* exists and a choreography is pending.
C3_Witness ==
    /\ lastOp.op = "drawAttackBeam" /\ ~lastOp.accepted
    /\ lastOp.severity = "critical"
    /\ soundEnabled /\ lastSoundTime # 0
    /\ shieldDomeLayer # <<>>
    /\ timers # {}

\* C8: at most one dome is ever created; it exists from the first accepted
\* event on, anchored at that event's destination, and is never moved; before
\* the first accepted event there is none.
C8_DomeSingleton ==
    /\ hist.domes <= 1
    /\ hist.accepted = 0 => (hist.domes = 0 /\ shieldDomeLayer = <<>>)
    /\ hist.accepted >= 1 =>
           /\ hist.domes = 1
           /\ Len(shieldDomeLayer) = 1
           /\ shieldDomeLayer[1].center = hist.firstDest
    /\ "shieldDome" \in Kinds(spawned) =>
           (lastOp.op = "drawAttackBeam" /\ lastOp.accepted /\ hist.accepted = 1)

\* A second event has been accepted whose destination is not the dome's anchor.
C8_Witness ==
    /\ lastOp.op = "drawAttackBeam" /\ lastOp.accepted
    /\ hist.accepted = 2
    /\ lastOp.to # hist.firstDest
    /\ shieldDomeLayer[1].center = hist.firstDest

\* C10: only accepted critical events schedule a choreography: an accepted
\* event of another severity leaves no delayed task of its own, every pending
\* task and every intercept beam goes back to a critical event.
C10_CriticalOnly ==
    /\ (lastOp.op = "drawAttackBeam" /\ lastOp.accepted /\ lastOp.severity # "critical")
           => ~\E t \in timers : t.trig = lastOp.at
    /\ \A t \in timers : t.severity = "critical"
    /\ lastOp.op \in {"multiIntercept", "createInterceptBeam"}
           => lastOp.severity = "critical"
    /\ "interceptBeam" \in Kinds(spawned) => lastOp.op = "createInterceptBeam"

\* An event of an unknown severity has just been accepted 60 ms after a
\* critical one, whose choreography is still pending.
C10_Witness ==
    /\ lastOp.op = "drawAttackBeam" /\ lastOp.accepted
    /\ lastOp.severity = "bogus"
    /\ hist.criticals = 1
    /\ timers # {}


----------------------------------------------------------------------------
\* Properties of the escalation state (SpecPaced).

\* C4: defensePressure is the number of accepted events and escalationLevel is
\* 1 for a pressure of 0..6, 2 for 7..12, 3 above 12; so the level is 2 from
\* the 7th accepted event on and 3 from the 13th on, and not before.
C4_LevelFollowsPressure ==
    /\ defensePressure = hist.accepted
    /\ defensePressure \in 0..6 => escalationLevel = 1
    /\ defensePressure \in 7..12 => escalationLevel = 2
    /\ defensePressure > 12 => escalationLevel = 3
    /\ escalationLevel >= 2 <=> hist.accepted >= 7
    /\ escalationLevel = 3 <=> hist.accepted >= 13

\* The 13th event has just been accepted and the level is 3.
C4_Witness ==
    /\ lastOp.op = "drawAttackBeam" /\ lastOp.accepted
    /\ hist.accepted = 13
    /\ escalationLevel = 3

\* C5: no step of the engine (accepted or rejected call of any severity,
\* delayed task, passing of time) lowers defensePressure or escalationLevel.
C5_Monotone ==
    [][defensePressure' >= defensePressure /\ escalationLevel' >= escalationLevel]_vars

\* At level 3, after a critical event, a call has just been rejected.
C5_Witness ==
    /\ lastOp.op = "drawAttackBeam" /\ ~lastOp.accepted
    /\ escalationLevel = 3
    /\ hist.criticals = 1

----------------------------------------------------------------------------
\* Properties of the per-origin counters and of the ring buffer (SpecRing).

\* C6: the N-th accepted event from an origin key spawns a cluster warning
\* (at that origin) if and only if N >= 4; rejected calls spawn none and the
\* events of the other key are not counted.
C6_ClusterFromFourth ==
    /\ (lastOp.op = "drawAttackBeam" /\ lastOp.accepted) =>
           /\ ("clusterWarning" \in Kinds(spawned))
                  <=> (hist.acceptedFrom[toString(lastOp.from)] >= 4)
           /\ \A i \in DOMAIN spawned :
                  spawned[i].kind = "clusterWarning" => spawned[i].from = lastOp.from
    /\ ~(lastOp.op = "drawAttackBeam" /\ lastOp.accepted) =>
           "clusterWarning" \notin Kinds(spawned)

\* The 4th event from one origin has just been accepted, after events from
\* the other origin, and has spawned the cluster warning.
C6_Witness ==
    /\ lastOp.op = "drawAttackBeam" /\ lastOp.accepted
    /\ hist.acceptedFrom[toString(lastOp.from)] = 4
    /\ hist.accepted = 6
    /\ "clusterWarning" \in Kinds(spawned)

\* The last k elements of a sequence.
LastOf(seq, k) == SubSeq(seq, Len(seq) - k + 1, Len(seq))

\* C7: after n accepted events recentTargets holds min(n, 5) entries, never
\* more than 5: the destinations of the last min(n, 5) accepted events, oldest
\* first.
C7_RingIsLastFive ==
    LET n == Len(accDests)
        k == IF n < 5 THEN n ELSE 5
    IN  /\ Len(recentTargets) = k
        /\ Len(recentTargets) <= 5
        /\ recentTargets = LastOf(accDests, k)

\* Seven events have been accepted; the two evicted destinations differ from
\* each other, and so do the oldest and the newest kept.
C7_Witness ==
    /\ Len(accDests) = 7
    /\ accDests[1] # accDests[2]
    /\ recentTargets[1] # recentTargets[5]
    /\ accDests[2] # recentTargets[1]

----------------------------------------------------------------------------
\* Properties of the choreography (SpecIntercept).

\* The pending stagger tasks of the choreography triggered at time trig.
BeamsOf(trig) == {t \in timers : t.kind = "createInterceptBeam" /\ t.trig = trig}

\* C9 as stated: the choreography of a critical event accepted at t creates a
\* beam for each of the k targets recentTargets held once that event's own
\* destination was appended.
C9_TargetsAtAcceptance ==
    lastOp.op = "multiIntercept" =>
        \A b \in BeamsOf(lastOp.trig) :
            /\ Cardinality(BeamsOf(lastOp.trig)) = Len(b.snap)
            /\ b.to = b.snap[b.idx + 1]

\* C9, amended: the choreography of a critical event accepted at t fires at
\* t + 80 and creates a beam for each of the k targets recentTargets holds at
\* that moment, oldest first, the i-th (i = 0..k-1) at t + 80 + i*120, from
\* the dome's anchor to that target; no task is lost or late.
C9_TargetsAtFiring ==
    /\ lastOp.op = "multiIntercept" =>
           /\ now = lastOp.trig + 80
           /\ BeamsOf(lastOp.trig) =
                  {Task("createInterceptBeam", lastOp.trig + 80 + i * 120, lastOp.trig, i,
                        hist.firstDest, recentTargets[i + 1], "critical",
                        CHOOSE snap \in {b.snap : b \in BeamsOf(lastOp.trig)} : TRUE)
                   : i \in 0..(Len(recentTargets) - 1)}
           /\ Cardinality(BeamsOf(lastOp.trig)) = Len(recentTargets)
    /\ lastOp.op = "createInterceptBeam" =>
           /\ now = lastOp.trig + 80 + lastOp.idx * 120
           /\ spawned = <<Eff("interceptBeam", hist.firstDest, lastOp.to, 3, "#00ffff")>>
    /\ \A t \in timers :
           /\ t.due >= now
           /\ t.kind = "multiIntercept" => t.due = t.trig + 80
           /\ t.kind = "createInterceptBeam" => t.due = t.trig + 80 + t.idx * 120

\* The third beam of a choreography has just been created, 320 ms after the
\* critical event that triggered it.
C9_Witness ==
    /\ lastOp.op = "createInterceptBeam"
    /\ lastOp.idx = 2
    /\ now = lastOp.trig + 320

----------------------------------------------------------------------------
\* Properties of the critical branch (SpecPaced, Spec).

\* C11: any two global pulses are created at least 1500 ms apart: a step
\* creates at most one, and none less than 1500 ms after the one before.
C11_PulsesApart ==
    [][Count(spawned', "globalPulse") > 0 =>
        /\ Count(spawned', "globalPulse") = 1
        /\ hist.lastPulseAt = 0 \/ now' - hist.lastPulseAt >= GlobalPulseGapMs]_vars

----------------------------------------------------------------------------
\* Properties of the critical-event effects (Spec).

\* C17: a global pulse is spawned only by an accepted critical event handled
\* at escalation level 3.
C17_PulseOnlyAtLevelThree ==
    "globalPulse" \in Kinds(spawned) =>
        /\ lastOp.op = "drawAttackBeam" /\ lastOp.accepted
        /\ lastOp.severity = "critical"
        /\ escalationLevel = 3

\* C18: an accepted critical event spawns one orbital pulse when the level
\* recomputed for it is 2 or 3, and none at level 1.
C18_OrbitalIffLevelTwo ==
    (lastOp.op = "drawAttackBeam" /\ lastOp.accepted /\ lastOp.severity = "critical") =>
        Count(spawned, "orbitalPulse") = (IF escalationLevel >= 2 THEN 1 ELSE 0)

----------------------------------------------------------------------------
\* Properties of the tiered cue (SpecAudio).

\* The clips of the two tiers among those a step starts, in order.
TierClips(clips) ==
    SelectSeq(clips, LAMBDA c : c \in {"alertLow", "alertHigh"})

\* C19: an accepted call sets the level from the pressure and starts the clip
\* of that level once (none at level 1 or without sound); a rejected call
\* starts none.
C19_OneCuePerEvent ==
    [][IsCall =>
        IF lastOp'.accepted
        THEN /\ escalationLevel' = level(defensePressure')
             /\ TierClips(played') =
                    IF ~soundEnabled \/ escalationLevel' = 1 THEN <<>>
                    ELSE IF escalationLevel' = 2 THEN <<"alertLow">>
                    ELSE <<"alertHigh">>
        ELSE played' = <<>>]_vars

----------------------------------------------------------------------------
\* Properties of the origin counters in attackMap.js (SpecMap).

\* C20: the counter of an origin key is the number of events drawn from that
\* key, and an origin pulse is drawn with that number capped at OriginCap.
C20_CounterCountsEvents ==
    /\ \A o \in Origins :
           Get(originIntensity, toString(o)) = Get(hist.acceptedFrom, toString(o))
    /\ \A i \in DOMAIN spawned :
           spawned[i].kind = "originPulse" =>
               LET events == Get(hist.acceptedFrom, toString(spawned[i].from))
               IN  /\ spawned[i].p \in 1..OriginCap
                   /\ spawned[i].p = IF events < OriginCap THEN events ELSE OriginCap

----------------------------------------------------------------------------
\* Properties of the choreography without a dome (SpecPage).

----------------------------------------------------------------------------
\* Properties of the severity argument (SpecSeverity).

\* C12: a call whose severity is none of low, medium, high, critical does
\* exactly what the same call with severity medium does from the same state:
\* the same counters, ring buffer, dome, limiter timestamps and delayed tasks,
\* the same layers with the same colours and sizes, the same audio clips; a
\* rejected one changes nothing.
C12_UnknownAsMedium ==
    [][(IsCall /\ lastOp'.severity \notin Known) =>
        IF lastOp'.accepted
        THEN AcceptedBody(lastOp'.from, lastOp'.to, "medium")
        ELSE UNCHANGED engine]_vars

----------------------------------------------------------------------------
\* Properties of the layers (SpecEffects).

Packets == {l \in layers : l.eff.kind = "packet"}

\* m is the layer l, now or one step later.
Same(l, m) == m.eff = l.eff /\ m.src = l.src /\ m.at = l.at /\ m.n = l.n

\* The step removes the layer l.
Completes(l) == ~\E m \in layers' : Same(l, m)

\* The impact flashes the step creates for the packet l.
FlashesOf(l) ==
    {m \in layers' \ layers :
        /\ m.src = "packet" /\ m.n = l.n /\ m.at = now'
        /\ m.eff = Eff("impactFlash", l.eff.to, l.eff.to, 20000, l.eff.color)}

\* What every step does to the packets but for the count of frames: a packet
\* is created by an accepted call only, with its first step taken; then only
\* an animation frame touches it, adding one step per frame; the frame that
\* ends it removes its marker for good and creates exactly one impact flash,
\* at its destination; no other step creates an impact flash there for it.
PacketSteps ==
    /\ \A l \in Packets :
           /\ l.steps = l.ticks + 1
           /\ Completes(l) =>
                  /\ lastOp'.op = "frame"
                  /\ Cardinality(FlashesOf(l)) = 1
                  /\ l.eff.to = <<20, 20>>
           /\ ~Completes(l) =>
                  /\ FlashesOf(l) = {}
                  /\ \E m \in layers' :
                         /\ Same(l, m)
                         /\ IF lastOp'.op = "frame"
                            THEN m.steps = l.steps + 1 /\ m.ticks = l.ticks + 1
                            ELSE m.steps = l.steps /\ m.ticks = l.ticks
    /\ \A m \in layers' :
           (m.eff.kind = "packet" /\ ~\E l \in Packets : Same(l, m)) =>
               /\ lastOp'.op = "drawAttackBeam" /\ lastOp'.accepted
               /\ m.at = now' /\ m.steps = 1 /\ m.ticks = 0
    /\ \A m \in layers' :
           (m.src = "packet" /\ ~\E k \in layers : Same(k, m)) =>
               \E l \in Packets : Completes(l) /\ m \in FlashesOf(l)

\* C13 as stated: a packet advances by 0.02 per animation frame and ends on
\* the 50th frame after it was created, not earlier and not later; the frame
\* that ends it removes its marker and creates exactly one impact flash at the
\* destination, and the packet is not stepped again.
C13_FiftyTicks ==
    [][/\ PacketSteps
       /\ \A l \in Packets :
              /\ l.ticks < 50
              /\ Completes(l) <=> l.ticks + 1 = 50]_vars

\* C13, amended: a packet takes fifty steps of 0.02, the first in the call that
\* creates it and one per animation frame after: it ends on the 49th frame
\* after it was created, not earlier and not later; the frame that ends it
\* removes its marker and creates exactly one impact flash at the
\* destination, and the packet is not stepped again.
C13_FiftySteps ==
    [][/\ PacketSteps
       /\ \A l \in Packets :
              /\ l.steps < 50
              /\ Completes(l) <=> (l.steps + 1 = 50 /\ l.ticks + 1 = 49
                                    /\ lastOp'.op = "frame")]_vars

\* A frame has just ended a packet: its impact flash is on the map, at the
\* destination, and the marker is gone.
C13_Witness ==
    /\ lastOp.op = "frame"
    /\ \E m \in layers :
           /\ m.src = "packet" /\ m.at = now /\ m.steps = 1
           /\ m.eff.kind = "impactFlash" /\ m.eff.to = <<20, 20>>
           /\ ~\E l \in Packets : l.n = m.n /\ l.at + 49 * FramePeriod = now

\* Nothing is left to run: no delayed task, no animation asking for a frame, no
\* removal to come.
Quiescent == timers = {} /\ Animating = {} /\ layerDues = {}

\* C15: every effect of an accepted event ends by itself and then releases the
\* layers it put on the map: once nothing is left to run, the only layer still
\* on the map is the dome.
C15_LiveSetDrains ==
    Quiescent => \A l \in layers : l.eff.kind = "shieldDome"

----------------------------------------------------------------------------
\* Properties of the engine of attackMap.js (SpecMap).

\* The revert tasks still pending.
Reverts == {t \in timers : t.kind = "revert"}

\* C14: the stored base values of the dome are never modified; the revert
\* task of an intensify call falls due 700 ms after the call (1400 ms for a
\* critical one) and is not late; and once the revert task of the latest
\* intensify call has run, the dome's opacity, fill opacity and weight are the
\* base values, also when the revert of an earlier call is still to come.
C14_RevertsToBase ==
    /\ \A t \in Reverts :
           /\ t.due = t.trig + (IF t.severity = "critical" THEN 1400 ELSE 700)
           /\ t.due >= now
    /\ shieldDomeLayer # <<>> =>
           LET dome == shieldDomeLayer[1]
           IN  /\ dome.baseOpacity = 45 /\ dome.baseFill = 8 /\ dome.baseWeight = 2
               /\ (\A t \in Reverts : t.event # attackCount) =>
                      /\ dome.opacity = 45
                      /\ dome.fillOpacity = 8
                      /\ dome.weight = 2

\* The revert of the second call (medium) has just run while the revert of
\* the first (critical) is still pending.
C14_Witness ==
    /\ lastOp.op = "revertShieldDome"
    /\ lastOp.idx = 2 /\ attackCount = 2
    /\ lastOp.severity = "medium"
    /\ \E t \in Reverts : t.event = 1 /\ t.severity = "critical"
    /\ shieldDomeLayer[1].weight = 2

\* C21: until the delay of the latest intensify call has elapsed, the dome
\* keeps that call's intensified style, whatever earlier revert tasks run.
C21_LaterSupersedes ==
    shieldDomeLayer # <<>> =>
        \A t \in Reverts :
            (t.event = attackCount /\ t.due > now) =>
                shieldDomeLayer[1] = intensified(shieldDomeLayer[1], t.severity)

----------------------------------------------------------------------------
\* Properties of the idle pulse of the dome (SpecMap).

\* C22: each run of pulse() moves the radius by 1200, up while growing and
\* down while shrinking; after it the dome shrinks if the radius exceeds
\* 200000, grows if the radius is below 170000 and keeps its direction
\* otherwise; the radius of the dome stays within 168800..201200; and pulse()
\* runs at every refresh while the dome exists.
C22_TriangleWave ==
    [][/\ lastOp'.op = "frame" =>
              LET before == shieldDomeLayer[1]
                  after == shieldDomeLayer'[1]
              IN  /\ after.radius =
                         before.radius + (IF before.growing THEN 1200 ELSE -1200)
                  /\ after.radius > 200000 => ~after.growing
                  /\ after.radius < 170000 => after.growing
                  /\ (after.radius >= 170000 /\ after.radius <= 200000) =>
                         after.growing = before.growing
       /\ shieldDomeLayer' # <<>> =>
              /\ shieldDomeLayer'[1].radius >= 168800
              /\ shieldDomeLayer'[1].radius <= 201200
       /\ (lastOp.op = "advance" /\ AtRefresh /\ shieldDomeLayer # <<>>) =>
              lastOp'.op = "frame"]_vars

\* The pulse has gone up to its highest radius and has just come down to its
\* lowest, where it turns to growing again.
C22_Witness ==
    /\ lastOp.op = "frame"
    /\ shieldDomeLayer # <<>>
    /\ shieldDomeLayer[1].radius = 169200
    /\ shieldDomeLayer[1].growing

----------------------------------------------------------------------------
\* Properties of the first event (SpecBoot).

\* C23: a call made while the engine has accepted nothing yet is accepted,
\* whatever the clock shows, and leaves attackCount = 1, defensePressure = 1,
\* escalationLevel = 1, its destination as the only recent target and a dome.
C23_FirstAccepted ==
    [][(IsCall /\ attackCount = 0 /\ lastDrawTime = 0) =>
          /\ lastOp'.accepted
          /\ attackCount' = 1
          /\ defensePressure' = 1
          /\ escalationLevel' = 1
          /\ recentTargets' = <<lastOp'.to>>
          /\ shieldDomeLayer' # <<>>]_vars

----------------------------------------------------------------------------
\* Properties of the three timestamps (SpecLimiters).

\* C24: lastDrawTime is written only by an accepted call, lastSoundTime only
\* by a step that starts the critical sound, and lastGlobalPulse only by a
\* step whose rate-limited pulse fires, each with the time of that step;
\* whether the sound is started or the pulse fires depends on no timestamp but
\* its own; and two starts of the critical sound are at least SoundGapMs apart.
C24_IndependentLimiters ==
    [][LET call == IsCall /\ lastOp'.accepted
           critical == call /\ lastOp'.severity = "critical"
           rings == "criticalSound" \in {played'[i] : i \in DOMAIN played'}
       IN  /\ lastDrawTime' # lastDrawTime => (call /\ lastDrawTime' = now)
           /\ lastSoundTime' # lastSoundTime => (rings /\ lastSoundTime' = now)
           /\ lastGlobalPulse' # lastGlobalPulse =>
                  /\ critical /\ "globalPulse" \in Kinds(spawned')
                  /\ lastGlobalPulse' = now
           /\ rings <=> (critical /\ soundEnabled
                           /\ (lastSoundTime = 0 \/ now - lastSoundTime > SoundGapMs))
           /\ rings => lastSoundTime' = now
           /\ critical =>
                  (lastGlobalPulse' = now <=>
                      (lastGlobalPulse = 0 \/ now - lastGlobalPulse > GlobalPulseGapMs))
           /\ rings => (hist.lastSoundAt = 0 \/ now - hist.lastSoundAt >= SoundGapMs)]_vars

\* With sound enabled, a critical event 800 ms after the one that started the
\* sound has been accepted without starting it, and its pulse was held back too.
C24_Witness ==
    /\ lastOp.op = "drawAttackBeam" /\ lastOp.accepted
    /\ lastOp.severity = "critical"
    /\ soundEnabled
    /\ played = <<>>
    /\ lastDrawTime = now
    /\ lastSoundTime = now - 800
    /\ lastGlobalPulse = now - 1200

----------------------------------------------------------------------------
\* Properties of the dome at the firing of a choreography (SpecIntercept).

\* C25: a step that leaves a choreography pending leaves a dome as well; the
\* dome, once there, is never removed or replaced; so every choreography that
\* fires finds the dome and schedules its beams from the dome's anchor.
C25_DomeBeforeChoreography ==
    [][/\ (\E t \in timers' : t.kind = "multiIntercept") => shieldDomeLayer' # <<>>
       /\ shieldDomeLayer # <<>> => shieldDomeLayer' = shieldDomeLayer
       /\ lastOp'.op = "multiIntercept" =>
              /\ shieldDomeLayer # <<>>
              /\ lastOp'.accepted
              /\ \E t \in timers' \ timers :
                     /\ t.kind = "createInterceptBeam"
                     /\ t.from = shieldDomeLayer[1].center]_vars

\* The choreography of the very first accepted event, the one that created the
\* dome, has just fired.
C25_Witness ==
    /\ lastOp.op = "multiIntercept"
    /\ lastOp.accepted
    /\ hist.accepted = 1
    /\ hist.domes = 1
    /\ \E t \in timers : t.kind = "createInterceptBeam"

----------------------------------------------------------------------------
\* Properties of the targets of a choreography (SpecIntercept).

\* The response-delay task that the step fires.
Fired == {t \in timers \ timers' : t.kind = "multiIntercept"}

\* C26: when a choreography fires, the destination of the event that
\* scheduled it is the newest recent target if no event has been accepted
\* since, and otherwise the second newest, the one event accepted since being
\* at least one and less than two throttle intervals after the trigger; and a
\* beam is scheduled to that destination.
C26_TriggerAmongTargets ==
    [][lastOp'.op = "multiIntercept" =>
          \A task \in Fired :
              LET n == Len(recentTargets)
                  dest == task.snap[Len(task.snap)]
              IN  /\ n >= 1
                  /\ IF hist.lastAcceptAt = task.trig
                     THEN recentTargets[n] = dest
                     ELSE /\ n >= 2
                          /\ recentTargets[n - 1] = dest
                          /\ hist.lastAcceptAt >= task.trig + ThrottleMs
                          /\ now < task.trig + 2 * ThrottleMs
                  /\ \E t \in timers' \ timers :
                         /\ t.kind = "createInterceptBeam"
                         /\ t.to = dest
                         /\ t.idx \in {n - 1, n - 2}]_vars

\* A choreography has just fired after another event, to the other
\* destination, was accepted during its delay: the triggering destination is
\* the second newest of three targets.
C26_Witness ==
    /\ lastOp.op = "multiIntercept"
    /\ hist.lastAcceptAt = lastOp.trig + ThrottleMs
    /\ Len(recentTargets) = 3
    /\ recentTargets[2] # recentTargets[3]
    /\ \E t \in timers :
           /\ t.kind = "createInterceptBeam" /\ t.trig = lastOp.trig
           /\ t.idx = 1 /\ t.to = recentTargets[2]
           /\ t.snap = SubSeq(recentTargets, 1, 2)

\* The pending beam tasks.
Beams(tasks) == {t \in tasks : t.kind = "createInterceptBeam"}

\* C27: a choreography that fires schedules one beam per target recentTargets
\* holds at that moment, in order, whatever it held when the event was
\* accepted; afterwards no step adds a beam task, and the only step that takes
\* one away is the creation of that beam, to the target fixed at firing: an
\* accepted event leaves every pending beam task as it is.
C27_TargetsFixedAtFiring ==
    [][/\ lastOp'.op = "multiIntercept" =>
              /\ Beams(timers) \subseteq Beams(timers')
              /\ \A task \in Fired :
                     LET new == Beams(timers') \ Beams(timers)
                     IN  /\ Cardinality(new) = Len(recentTargets)
                         /\ \A i \in 1..Len(recentTargets) :
                                \E t \in new : /\ t.idx = i - 1
                                               /\ t.to = recentTargets[i]
                                               /\ t.trig = task.trig
       /\ lastOp'.op = "createInterceptBeam" =>
              \E task \in Beams(timers) :
                  /\ Beams(timers') = Beams(timers) \ {task}
                  /\ task.due = now
                  /\ spawned'[1].to = task.to
       /\ lastOp'.op \notin {"multiIntercept", "createInterceptBeam"} =>
              Beams(timers') = Beams(timers)]_vars

\* A third event has just been accepted while the second beam of a
\* choreography is pending: the choreography was scheduled with one target,
\* fired with two after an event accepted during its delay, and its pending
\* beam keeps the second of the now three targets.
C27_Witness ==
    /\ lastOp.op = "drawAttackBeam" /\ lastOp.accepted
    /\ Len(recentTargets) = 3
    /\ \E t \in Beams(timers) :
           /\ t.trig + 80 < now
           /\ Len(t.snap) = 1
           /\ t.idx = 1
           /\ t.to = recentTargets[2]
           /\ t.to # recentTargets[3]
           /\ \A b \in Beams(timers) : b.trig = t.trig => b.idx <= 1

----------------------------------------------------------------------------
\* Properties of the per-origin counters (Spec).

\* C28: a step changes the two counters of an origin key only if it is an
\* accepted call from that origin, which adds one to each; every other step,
\* and every call from another origin, leaves them as they are; no key is
\* ever dropped, and the keys are those of the origins seen.
C28_CountersIndependent ==
    [][/\ \A o \in Origins :
              LET key == toString(o)
                  mine == IsCall /\ lastOp'.accepted /\ lastOp'.from = o
              IN  /\ Get(originIntensity', key) =
                         Get(originIntensity, key) + (IF mine THEN 1 ELSE 0)
                  /\ Get(heatZones', key) =
                         Get(heatZones, key) + (IF mine THEN 1 ELSE 0)
       /\ DOMAIN originIntensity \subseteq DOMAIN originIntensity'
       /\ DOMAIN heatZones \subseteq DOMAIN heatZones'
       /\ DOMAIN originIntensity' \subseteq {toString(o) : o \in Origins}
       /\ DOMAIN heatZones' \subseteq {toString(o) : o \in Origins}]_vars

\* An event from the second origin has just been accepted after one from the
\* first: each origin's counters stand at one.
C28_Witness ==
    /\ lastOp.op = "drawAttackBeam" /\ lastOp.accepted
    /\ lastOp.from = <<10, 10>>
    /\ hist.accepted = 2
    /\ Get(originIntensity, toString(<<5, 5>>)) = 1
    /\ Get(originIntensity, toString(<<10, 10>>)) = 1
    /\ Get(heatZones, toString(<<5, 5>>)) = 1
    /\ Get(heatZones, toString(<<10, 10>>)) = 1

====
